---- MODULE Spec2Model ----
(***************************************************************************)
(* Model of the xo command (src/xo.go): the argument splitter `split`, the *)
(* validation of its result in `main`, and the per-match formatting loop   *)
(* with its run-scoped fallback table.  The older variant's splitter       *)
(* (src/main.go: strings.Split + compact) is modelled next to it.          *)
(*                                                                         *)
(* A Go string is a sequence of one-character strings (one per rune).      *)
(* Capture index i of Go is position i+1 of a group here.                  *)
(*                                                                         *)
(* The run starts at line 135, with an argument given and stdin piped.     *)
(* The regexp library's answers on the user's pattern are inputs of the    *)
(* run: whether the pattern compiles, and the matches it finds on stdin.   *)
(* The three regexps main builds itself (rxFallback, rxEsc, rxRepl) and    *)
(* ReplaceAllString's template expansion are modelled by what they do.     *)
(***************************************************************************)
EXTENDS Integers, Sequences, FiniteSets, TLC

VARIABLES
    arg,        \* flag.Arg(0), the specification string
    compiles,   \* whether regexp.Compile accepts the pattern (library outcome)
    found,      \* what rx.FindAllSubmatch returns on this run's stdin
    pc,         \* position of main: "parse","compile","match","step","print","exit"
    parts,      \* split's result
    pattern,    \* the pattern handed to regexp.Compile
    format,     \* the template, parts[1]
    flags,      \* parts[2] or ""
    matches,    \* the matches being formatted
    fallbacks,  \* map[int]string, a function on the registered indices
    mi,         \* 1-based position of the current group in matches
    ci,         \* capture index i of the inner loop (0-based, as in Go)
    before,     \* result when the current index step began
    stripped,   \* result after the fallback markers of the index were stripped
    value,      \* the value handed to the substitution of $i
    result,     \* the working copy of the template
    stdout,     \* the lines written to standard output, in order
    exitCode    \* the process's exit status, -1 while running

vars == <<arg, compiles, found, pc, parts, pattern, format, flags, matches,
          fallbacks, mi, ci, before, stripped, value, result, stdout, exitCode>>

----------------------------------------------------------------------------
(* Characters *)

BS == "\\"
DOLLAR == "$"
NL == "\n"
\* utf8.RuneError, U+FFFD: a valid rune, and what DecodeRuneInString("") returns
RuneError == "<U+FFFD>"
\* a byte that is not valid UTF-8
BadByte == "<0xFF>"

Digits == <<"0", "1", "2", "3", "4", "5", "6", "7", "8", "9">>
DigitSet == {Digits[k] : k \in 1..10}
UpperSet == {"A","B","C","D","E","F","G","H","I","J","K","L","M",
             "N","O","P","Q","R","S","T","U","V","W","X","Y","Z"}
LowerSet == {"a","b","c","d","e","f","g","h","i","j","k","l","m",
             "n","o","p","q","r","s","t","u","v","w","x","y","z"}

\* the class [-_A-Za-z0-9] of rxFallback
IsLiteralChar(c) == c \in {"-", "_"} \cup UpperSet \cup LowerSet \cup DigitSet

\* `.` of a Go regexp without the s flag: any character but newline
DotMatches(c) == c # NL

\* unicode.IsLetter || unicode.IsDigit || '_' (regexp's extract)
IsNameChar(c) == c \in {"_"} \cup UpperSet \cup LowerSet \cup DigitSet

Drop(s, n) == SubSeq(s, n + 1, Len(s))

RECURSIVE Itoa(_)
\* fmt.Sprintf("%d", i) for i >= 0
Itoa(i) == IF i < 10 THEN <<Digits[i + 1]>>
           ELSE Itoa(i \div 10) \o <<Digits[(i % 10) + 1]>>

\* whether s holds t at position p (1-based)
HasAt(s, p, t) == /\ p + Len(t) - 1 <= Len(s)
                  /\ SubSeq(s, p, p + Len(t) - 1) = t

----------------------------------------------------------------------------
(* split, src/xo.go *)

ValidString(str) == \A k \in 1..Len(str) : str[k] # BadByte

\* utf8.DecodeRuneInString on validly encoded text: (RuneError, 0) on ""
DecodeRune(str) == IF str = <<>> THEN RuneError ELSE Head(str)
RuneSize(str) == IF str = <<>> THEN 0 ELSE 1

\* Flush without the buffer.Len() > 0 test
FlushAlways(subs, buffer) == Append(subs, buffer)

\* lines 235-238 and 244-246: a non-empty buffer becomes a component
Flush(subs, buffer) == IF Len(buffer) > 0 THEN Append(subs, buffer) ELSE subs

RECURSIVE SplitLoop(_, _, _, _)
SplitLoop(str, delim, subs, buffer) ==
    IF Len(str) = 0
    THEN Flush(subs, buffer)
    ELSE LET r    == DecodeRune(str)
             rest == Drop(str, RuneSize(str))
             peek == DecodeRune(rest)
         IN  IF r = BS /\ peek = delim
             THEN SplitLoop(Drop(rest, RuneSize(rest)), delim, subs,
                            Append(buffer, peek))
             ELSE IF r = delim
             THEN SplitLoop(rest, delim, Flush(subs, buffer), <<>>)
             ELSE SplitLoop(rest, delim, subs, Append(buffer, r))

split(str) ==
    IF ~ValidString(str)
    THEN [err |-> TRUE, subs |-> <<>>]
    ELSE [err |-> FALSE,
          subs |-> SplitLoop(Drop(str, RuneSize(str)), DecodeRune(str),
                             <<>>, <<>>)]

----------------------------------------------------------------------------
(* the older splitter, src/main.go *)

RECURSIVE StringsSplit(_, _, _)
\* strings.Split(s, sep) for a one-character sep; cur is the piece being read
StringsSplit(s, sep, cur) ==
    IF s = <<>> THEN <<cur>>
    ELSE IF Head(s) = sep THEN <<cur>> \o StringsSplit(Tail(s), sep, <<>>)
    ELSE StringsSplit(Tail(s), sep, Append(cur, Head(s)))

compact(strs) == SelectSeq(strs, LAMBDA str : str # <<>>)

\* string(arg[0]): the first byte converted as a code point.  An ASCII
\* character is itself; the first byte of U+FFFD (0xEF) gives U+00EF and the
\* byte 0xFF gives U+00FF, characters that are not those of the argument
OldDelimiter(str) ==
    IF Head(str) = RuneError THEN "<U+00EF>"
    ELSE IF Head(str) = BadByte THEN "<U+00FF>"
    ELSE Head(str)

\* parts of main.go: compact(strings.Split(arg, delimiter))
OldParts(str) == compact(StringsSplit(str, OldDelimiter(str), <<>>))

----------------------------------------------------------------------------
(* The fallback regexps of the formatting loop, src/xo.go *)

\* "$i", what `\$%d` matches and what group 1 of rxFallback holds
Placeholder(i) == <<DOLLAR>> \o Itoa(i)

RECURSIVE LiteralRun(_, _)
\* the end (exclusive) of the greedy tail of ([-_A-Za-z0-9]((\\.)+)?)+ from p,
\* p being just after a literal character: more literal characters and
\* backslash-escaped characters, in any order
LiteralRun(s, p) ==
    IF p <= Len(s) /\ IsLiteralChar(s[p]) THEN LiteralRun(s, p + 1)
    ELSE IF p + 1 <= Len(s) /\ s[p] = BS /\ DotMatches(s[p + 1])
    THEN LiteralRun(s, p + 2)
    ELSE p

\* rxFallback = (\$i)\?:(([-_A-Za-z0-9]((\\.)+)?)+) tried at position p:
\* the end (exclusive) of its match there, 0 when it does not match
FallbackEndAt(s, p, i) ==
    LET head == Placeholder(i) \o <<"?", ":">>
        q    == p + Len(head)
    IN  IF HasAt(s, p, head) /\ q <= Len(s) /\ IsLiteralChar(s[q])
        THEN LiteralRun(s, q + 1)
        ELSE 0

FallbackStarts(s, i) == {p \in 1..Len(s) : FallbackEndAt(s, p, i) > 0}

\* rxFallback.FindStringSubmatch(result): the leftmost match's group 2,
\* found = FALSE when len(fallback) = 0
FindFallback(s, i) ==
    IF FallbackStarts(s, i) = {}
    THEN [found |-> FALSE, literal |-> <<>>]
    ELSE LET p == CHOOSE x \in FallbackStarts(s, i) :
                      \A y \in FallbackStarts(s, i) : x <= y
             q == p + Len(Placeholder(i)) + 2
         IN  [found |-> TRUE,
              literal |-> SubSeq(s, q, FallbackEndAt(s, p, i) - 1)]

RECURSIVE StripFrom(_, _, _)
StripFrom(s, p, i) ==
    IF p > Len(s) THEN <<>>
    ELSE IF FallbackEndAt(s, p, i) > 0
    THEN Placeholder(i) \o StripFrom(s, FallbackEndAt(s, p, i), i)
    ELSE <<s[p]>> \o StripFrom(s, p + 1, i)

\* rxFallback.ReplaceAllString(result, "$1"): every marker becomes its group 1
StripFallbacks(s, i) == StripFrom(s, 1, i)

RECURSIVE Unescape(_)
\* rxEsc.ReplaceAllString(s, "$1") with rxEsc = \\(.)
Unescape(s) ==
    IF s = <<>> THEN <<>>
    ELSE IF Len(s) >= 2 /\ s[1] = BS /\ DotMatches(s[2])
    THEN <<s[2]>> \o Unescape(Drop(s, 2))
    ELSE <<s[1]>> \o Unescape(Drop(s, 1))

----------------------------------------------------------------------------
(* Regexp.ReplaceAllString expands its replacement as a template *)

RECURSIVE NameEnd(_, _)
\* extract: the end (exclusive) of the run of name characters from p
NameEnd(t, p) == IF p <= Len(t) /\ IsNameChar(t[p]) THEN NameEnd(t, p + 1) ELSE p

\* extract's number: the name is "0", or digits without a leading zero
IsGroupNumber(name) ==
    /\ \A k \in 1..Len(name) : name[k] \in DigitSet
    /\ (name[1] = "0" => Len(name) = 1)

\* what a reference to `name` expands to under rxRepl = \$i, a regexp with no
\* capture group and no named group: group 0 is the matched text, the rest ""
GroupText(name, matched) ==
    IF IsGroupNumber(name) /\ name = <<"0">> THEN matched ELSE <<>>

RECURSIVE Expand(_, _)
\* Regexp.expand(template) for a match whose text is `matched`
Expand(t, matched) ==
    IF t = <<>> THEN <<>>
    ELSE IF Head(t) # DOLLAR THEN <<Head(t)>> \o Expand(Tail(t), matched)
    ELSE LET a     == Tail(t)
             brace == a # <<>> /\ Head(a) = "{"
             b     == IF brace THEN Tail(a) ELSE a
             e     == NameEnd(b, 1)
             name  == SubSeq(b, 1, e - 1)
             ok    == /\ a # <<>>
                      /\ e > 1
                      /\ (brace => (e <= Len(b) /\ b[e] = "}"))
             rest  == IF brace THEN Drop(b, e) ELSE Drop(b, e - 1)
         IN  IF a # <<>> /\ Head(a) = DOLLAR
             THEN <<DOLLAR>> \o Expand(Tail(a), matched)
             ELSE IF ~ok THEN <<DOLLAR>> \o Expand(a, matched)
             ELSE GroupText(name, matched) \o Expand(rest, matched)

RECURSIVE ReplaceFrom(_, _, _, _)
ReplaceFrom(s, p, i, repl) ==
    IF p > Len(s) THEN <<>>
    ELSE IF HasAt(s, p, Placeholder(i))
    THEN Expand(repl, Placeholder(i))
         \o ReplaceFrom(s, p + Len(Placeholder(i)), i, repl)
    ELSE <<s[p]>> \o ReplaceFrom(s, p + 1, i, repl)

\* rxRepl.ReplaceAllString(result, value) with rxRepl = \$i
ReplaceValues(s, i, repl) == ReplaceFrom(s, 1, i, repl)

----------------------------------------------------------------------------
(* One pass of the inner loop, src/xo.go lines 168-199 *)

\* fallbacks[i] of a Go map: "" for a missing key
FallbackOf(fb, i) == IF i \in DOMAIN fb THEN fb[i] ELSE <<>>

\* Register without the test for an existing key: the last marker seen wins
RegisterLast(fb, i, literal) ==
    [k \in DOMAIN fb \cup {i} |-> IF k = i THEN Unescape(literal) ELSE fb[k]]

\* lines 183-187: store the fallback if the key does not already exist
Register(fb, i, literal) ==
    IF i \in DOMAIN fb THEN fb
    ELSE [k \in DOMAIN fb \cup {i} |-> IF k = i THEN Unescape(literal) ELSE fb[k]]

\* lines 182-189: the table after the step for index i on working string s
StepFallbacks(fb, s, i) ==
    IF FindFallback(s, i).found THEN Register(fb, i, FindFallback(s, i).literal)
    ELSE fb

\* line 188
StepStripped(s, i) == IF FindFallback(s, i).found THEN StripFallbacks(s, i) ELSE s

\* StepValue preferring a registered fallback to the captured text
StepValueFallbackFirst(fb, i, captured) ==
    IF i \in DOMAIN fb THEN fb[i] ELSE captured

\* lines 191-194: set default for empty values
StepValue(fb, i, captured) ==
    IF captured = <<>> THEN FallbackOf(fb, i) ELSE captured

----------------------------------------------------------------------------
(* main, src/xo.go *)

MsgInvalidArg == "Invalid argument string"
MsgNoPattern == "No pattern or formatter specified"
\* the message of line 143, without its parenthesis
MsgExtraDelim == "Extra delimiter detected"
MsgBadRegexp == "Invalid regular expression"
MsgNoMatches == "No matches found"

\* an entry of stdout: who printed it, and the text
ErrorLine(msg) == [by |-> "exitWithError", text |-> msg]
OutputLine(s) == [by |-> "main", text |-> s]

\* exitWithError: fmt.Println of the message, then os.Exit(1)
exitWithError(msg) ==
    /\ stdout' = Append(stdout, ErrorLine(msg))
    /\ exitCode' = 1
    /\ pc' = "exit"

\* CountError with the upper limit off by one
CountErrorLax(n) ==
    IF n <= 1 THEN MsgNoPattern
    ELSE IF n > 4 THEN MsgExtraDelim
    ELSE ""

\* lines 139-144: the error main exits with for n components, "" for none
CountError(n) ==
    IF n <= 1 THEN MsgNoPattern
    ELSE IF n > 3 THEN MsgExtraDelim
    ELSE ""

\* lines 135-150
ParseArg ==
    /\ pc = "parse"
    /\ LET s == split(arg)
       IN  IF s.err
           THEN /\ exitWithError(MsgInvalidArg)
                /\ UNCHANGED <<parts, pattern, format, flags>>
           ELSE /\ parts' = s.subs
                /\ IF CountError(Len(s.subs)) # ""
                   THEN /\ exitWithError(CountError(Len(s.subs)))
                        /\ UNCHANGED <<pattern, format, flags>>
                   ELSE /\ format' = s.subs[2]
                        /\ flags' = IF Len(s.subs) > 2 THEN s.subs[3] ELSE <<>>
                        /\ pattern' = IF Len(s.subs) > 2
                                      THEN <<"(", "?">> \o s.subs[3] \o <<")">>
                                           \o s.subs[1]
                                      ELSE s.subs[1]
                        /\ pc' = "compile"
                        /\ UNCHANGED <<stdout, exitCode>>
    /\ UNCHANGED <<arg, compiles, found, matches, fallbacks, mi, ci, before,
                   stripped, value, result>>

\* lines 152-155
Compile ==
    /\ pc = "compile"
    /\ IF compiles
       THEN pc' = "match" /\ UNCHANGED <<stdout, exitCode>>
       ELSE exitWithError(MsgBadRegexp)
    /\ UNCHANGED <<arg, compiles, found, parts, pattern, format, flags, matches,
                   fallbacks, mi, ci, before, stripped, value, result>>

\* lines 157-166: read stdin, match, and enter the loop at the first group
FindAll ==
    /\ pc = "match"
    /\ IF found = <<>>
       THEN /\ exitWithError(MsgNoMatches)
            /\ UNCHANGED <<matches, fallbacks, mi, ci, before, result>>
       ELSE /\ matches' = found
            /\ fallbacks' = <<>>
            /\ mi' = 1
            /\ ci' = 0
            /\ result' = format
            /\ pc' = "step"
            /\ UNCHANGED <<before, stdout, exitCode>>
    /\ UNCHANGED <<arg, compiles, found, parts, pattern, format, flags,
                   stripped, value>>

\* lines 168-199: the body of the inner loop for capture index ci.  The
\* patterns of lines 171, 180 and 197 compile for every i >= 0, so the exit of
\* line 173 is never taken
IndexStep ==
    /\ pc = "step"
    /\ LET captured == matches[mi][ci + 1]
           fb       == StepFallbacks(fallbacks, result, ci)
           s        == StepStripped(result, ci)
           v        == StepValue(fb, ci, captured)
       IN  /\ before' = result
           /\ fallbacks' = fb
           /\ stripped' = s
           /\ value' = v
           /\ result' = ReplaceValues(s, ci, v)
    /\ IF ci + 1 < Len(matches[mi])
       THEN ci' = ci + 1 /\ pc' = "step"
       ELSE ci' = ci /\ pc' = "print"
    /\ UNCHANGED <<arg, compiles, found, parts, pattern, format, flags, matches,
                   mi, stdout, exitCode>>

\* line 201, then the next group (line 166) or the end of main
PrintResult ==
    /\ pc = "print"
    /\ stdout' = Append(stdout, OutputLine(result))
    /\ IF mi < Len(matches)
       THEN /\ mi' = mi + 1
            /\ ci' = 0
            /\ result' = format
            /\ pc' = "step"
            /\ exitCode' = exitCode
       ELSE /\ pc' = "exit"
            /\ exitCode' = 0
            /\ UNCHANGED <<mi, ci, result>>
    /\ UNCHANGED <<arg, compiles, found, parts, pattern, format, flags, matches,
                   fallbacks, before, stripped, value>>

Next == ParseArg \/ Compile \/ FindAll \/ IndexStep \/ PrintResult

\* the state of main before line 135, for a run on the given inputs
InitOn(args, outcomes, results) ==
    /\ arg \in args
    /\ compiles \in outcomes
    /\ found \in results
    /\ pc = "parse"
    /\ parts = <<>>
    /\ pattern = <<>>
    /\ format = <<>>
    /\ flags = <<>>
    /\ matches = <<>>
    /\ fallbacks = <<>>
    /\ mi = 0
    /\ ci = 0
    /\ before = <<>>
    /\ stripped = <<>>
    /\ value = <<>>
    /\ result = <<>>
    /\ stdout = <<>>
    /\ exitCode = -1

----------------------------------------------------------------------------
(* Bounded inputs *)

\* all strings over alphabet A of length at most n
Strs(A, n) == UNION {[1..k -> A] : k \in 0..n}

\* the substrings of s: what a capture group of a match with text s can hold
Substrings(s) == {SubSeq(s, a, b) : a \in 1..(Len(s) + 1), b \in 0..Len(s)}

\* one match of a pattern with n-1 capture groups whose text is in whole
Groups(whole, n) ==
    {g \in [1..n -> UNION {Substrings(w) : w \in whole}] :
        /\ g[1] \in whole
        /\ \A k \in 2..n : g[k] \in Substrings(g[1])}

\* the non-empty match lists of at most n groups
MatchLists(G, n) == UNION {[1..k -> G] : k \in 1..n}

RECURSIVE Concat(_)
Concat(ss) == IF ss = <<>> THEN <<>> ELSE Head(ss) \o Concat(Tail(ss))

\* the templates made of at most n of the given tokens
Templates(T, n) == {Concat(ts) : ts \in Strs(T, n)}

\* the arguments /p/<template>
ArgsFor(F) == {<<"/", "p", "/">> \o f : f \in F}

MaxArgLen == 8
MaxBadLen == 3

ArgsRun == Strs({"/", BS, "a"}, MaxArgLen) \cup Strs({"/", "a", BadByte}, MaxBadLen)
\* no match, one match "a", two matches "a" (a pattern without capture groups)
FoundRun == {<<>>, << <<<<"a">>>> >>, << <<<<"a">>>>, <<<<"a">>>> >>}

Init == InitOn(ArgsRun, BOOLEAN, FoundRun)

Spec == Init /\ [][Next]_vars

----------------------------------------------------------------------------
(* The splitter on all short arguments *)

MaxSplitLen == 5

SplitExamples == {
    <<"/", "a", "/", "b", "/">>,
    <<"/", "a", "/", "b", "/", "i">>,
    <<"/", "/", "a", "/", "/", "b", "/", "/">>,
    <<"/", "a", BS, "/", "b", "/", "c", "/">> }

ArgsSplit == Strs({"/", BS, "a", RuneError, BadByte}, MaxSplitLen) \cup SplitExamples

InitSplit == InitOn(ArgsSplit, {TRUE}, {<< <<<<"a">>>> >>})

SpecSplit == InitSplit /\ [][Next]_vars

\* split has returned without error
Splitted == pc # "parse" /\ ValidString(arg)

Delim == DecodeRune(arg)
Rest == Drop(arg, RuneSize(arg))

Without(s, C) == SelectSeq(s, LAMBDA c : c \notin C)

\* C2: on validly encoded input split returns no empty component, the
\* characters of the components are those of the input in the input's order
\* (exactly the non-delimiter characters when the input has no backslash, where
\* the older splitter of main.go returns the same list for a one-byte
\* delimiter), and "/a/b/", "/a/b/i" and "//a//b//" yield [a, b], [a, b, i]
\* and [a, b].
C2_NoEmptyComponents ==
    Splitted =>
        /\ \A k \in 1..Len(parts) : parts[k] # <<>>
        /\ Without(Concat(parts), {Delim, BS}) = Without(Rest, {Delim, BS})
        /\ (\A k \in 1..Len(arg) : arg[k] # BS) =>
              /\ Concat(parts) = Without(Rest, {Delim})
              /\ \A k \in 1..Len(parts) : Delim \notin {parts[k][j] : j \in 1..Len(parts[k])}
              /\ (arg # <<>> /\ Delim # RuneError) => OldParts(arg) = parts
        /\ arg # <<>> => \A k \in 1..Len(OldParts(arg)) : OldParts(arg)[k] # <<>>
        /\ arg = <<"/", "a", "/", "b", "/">> => parts = << <<"a">>, <<"b">> >>
        /\ arg = <<"/", "a", "/", "b", "/", "i">>
              => parts = << <<"a">>, <<"b">>, <<"i">> >>
        /\ arg = <<"/", "/", "a", "/", "/", "b", "/", "/">>
              => parts = << <<"a">>, <<"b">> >>

\* C2's case: leading, trailing and consecutive delimiters around two components
C2_Witness ==
    /\ Splitted
    /\ arg = <<"/", "/", "a", "/", "/", "b", "/", "/">>
    /\ Len(parts) = 2

RECURSIVE Lex(_, _)
\* the reading of the input C3 describes: a backslash immediately followed by the
\* delimiter is one literal delimiter character, any other delimiter separates,
\* every other character (a backslash too) stands for itself
Lex(s, d) ==
    IF s = <<>> THEN <<>>
    ELSE IF Len(s) >= 2 /\ s[1] = BS /\ s[2] = d
    THEN <<[sep |-> FALSE, ch |-> d]>> \o Lex(Drop(s, 2), d)
    ELSE IF s[1] = d THEN <<[sep |-> TRUE, ch |-> d]>> \o Lex(Tail(s), d)
    ELSE <<[sep |-> FALSE, ch |-> s[1]]>> \o Lex(Tail(s), d)

RECURSIVE Runs(_, _)
\* the maximal non-empty runs of literal characters between separators
Runs(toks, cur) ==
    IF toks = <<>> THEN (IF cur = <<>> THEN <<>> ELSE <<cur>>)
    ELSE IF Head(toks).sep
    THEN (IF cur = <<>> THEN <<>> ELSE <<cur>>) \o Runs(Tail(toks), <<>>)
    ELSE Runs(Tail(toks), Append(cur, Head(toks).ch))

\* C3: when the delimiter is not the backslash, the components are the runs of
\* the input read with backslash-delimiter as one literal delimiter character
\* and every other backslash copied unchanged.
C3_EscapedDelimiter ==
    (Splitted /\ arg # <<>> /\ Delim # BS) => parts = Runs(Lex(Rest, Delim), <<>>)

\* C3 for the delimiters that the end of the input cannot be mistaken for
C3_OtherDelimiters ==
    (Splitted /\ arg # <<>> /\ Delim \notin {BS, RuneError})
        => parts = Runs(Lex(Rest, Delim), <<>>)

----------------------------------------------------------------------------
(* Errors *)

Running == pc \in {"compile", "match", "step", "print"}

PrintedBy(who) == {k \in 1..Len(stdout) : stdout[k].by = who}

\* C6: when the pattern finds no match, the run ends with a non-zero status
\* and standard output is empty.
C6_NoMatchesSilent ==
    (pc = "exit" /\ Len(parts) \in {2, 3} /\ compiles /\ found = <<>>)
        => (exitCode # 0 /\ stdout = <<>>)

\* C7: compilation and formatting are reached only with 2 or 3 components; 0 or
\* 1 components end the run with the "no pattern" error, more than 3 with the
\* "extra delimiter" error, both with a non-zero status and no formatted line.
C7_ComponentCount ==
    /\ (Running \/ PrintedBy("main") # {}) =>
          (~split(arg).err /\ Len(split(arg).subs) \in {2, 3}
                           /\ parts = split(arg).subs)
    /\ (pc # "parse" /\ ~split(arg).err /\ Len(split(arg).subs) <= 1) =>
          /\ pc = "exit"
          /\ exitCode = 1
          /\ stdout = <<ErrorLine(MsgNoPattern)>>
    /\ (pc # "parse" /\ ~split(arg).err /\ Len(split(arg).subs) > 3) =>
          /\ pc = "exit"
          /\ exitCode = 1
          /\ stdout = <<ErrorLine(MsgExtraDelim)>>

\* C7's case: four components, refused
C7_Witness ==
    /\ pc = "exit"
    /\ Len(split(arg).subs) = 4
    /\ stdout = <<ErrorLine(MsgExtraDelim)>>

----------------------------------------------------------------------------
(* The formatting loop *)

MaxMatches == 2

\* an index step of the current group has been taken; LastIndex is its index
Stepped == pc = "print" \/ (pc = "step" /\ ci > 0)
LastIndex == IF pc = "print" THEN ci ELSE ci - 1
Captured == matches[mi][LastIndex + 1]

RECURSIVE ReplaceLiteral(_, _, _)
\* s with every occurrence of t, left to right, replaced by the text v as it is
ReplaceLiteral(s, t, v) ==
    IF s = <<>> THEN <<>>
    ELSE IF HasAt(s, 1, t) THEN v \o ReplaceLiteral(Drop(s, Len(t)), t, v)
    ELSE <<Head(s)>> \o ReplaceLiteral(Tail(s), t, v)

MaxFallbackTokens == 2

TokFallback == { <<"$", "2", "?", ":", "X">>, <<"$", "2", "?", ":", "Y">>,
                 <<"$", "2">>, <<"$", "1">> }

InitFallback ==
    InitOn(ArgsFor(Templates(TokFallback, MaxFallbackTokens)), {TRUE},
           MatchLists(Groups({<<"a">>}, 3), MaxMatches))

SpecFallback == InitFallback /\ [][Next]_vars

TwoMarkers == <<"$", "2", "?", ":", "X", "$", "2", "?", ":", "Y">>

\* C1: an entry of the fallback table is never overwritten, by a later index
\* step or a later match; a step for an index that already has an entry and
\* whose capture is empty hands that first-registered entry to the substitution
\* and every $i of the stripped template shows it; and with the template
\* "$2?:X$2?:Y" and matches whose capture 2 is empty every output line is "XX".
C1_FirstUseWins ==
    [][ /\ \A i \in DOMAIN fallbacks :
              i \in DOMAIN fallbacks' /\ fallbacks'[i] = fallbacks[i]
        /\ (pc = "step" /\ ci \in DOMAIN fallbacks /\ matches[mi][ci + 1] = <<>>)
              => /\ value' = fallbacks[ci]
                 /\ result' = ReplaceLiteral(stripped', Placeholder(ci), fallbacks[ci])
        /\ (pc' = "exit" /\ exitCode' = 0 /\ format = TwoMarkers
               /\ \A k \in 1..Len(matches) : matches[k][3] = <<>>)
              => \A k \in 1..Len(matches) : stdout'[k] = OutputLine(<<"X", "X">>)
      ]_vars

\* C1's case: the second match, its capture 2 empty, has taken the step for
\* index 2 on a template that carries the marker $2?:Y after $2?:X
C1_Witness ==
    /\ pc = "print"
    /\ mi = 2
    /\ ci = 2
    /\ format = TwoMarkers
    /\ matches[1][3] = <<>>
    /\ matches[2][3] = <<>>
    /\ value = <<"X">>

\* C5: a step for an index whose captured text is not empty hands that text,
\* not the fallback, to the substitution of $i.
C5_CaptureWins == (Stepped /\ Captured # <<>>) => value = Captured

\* C5's case: the capture is not empty and a different fallback is registered
C5_Witness ==
    /\ Stepped
    /\ Captured # <<>>
    /\ LastIndex \in DOMAIN fallbacks
    /\ fallbacks[LastIndex] # Captured
    /\ FindFallback(before, LastIndex).found

----------------------------------------------------------------------------
(* $0 *)

MaxTokens == 3

TokWhole == { <<"$", "0">>, <<"$", "0", "?", ":", "X">>, <<"-">> }

WholeTexts == { <<>>, <<"a">>, <<"$", "a">>, <<"a", "$">> }

InitWhole ==
    InitOn(ArgsFor(Templates(TokWhole, MaxTokens)), {TRUE},
           MatchLists(Groups(WholeTexts, 1), MaxMatches))

SpecWhole == InitWhole /\ [][Next]_vars

\* C4: the step for index 0 replaces every $0 of the template (its fallback
\* markers stripped) by the whole text of the match, character for character.
C4_WholeMatch ==
    (Stepped /\ LastIndex = 0)
        => result = ReplaceLiteral(stripped, Placeholder(0), matches[mi][1])

\* C4 for a whole match that is not empty and holds no dollar sign
C4_PlainWholeMatch ==
    (Stepped /\ LastIndex = 0 /\ Captured # <<>>
        /\ \A k \in 1..Len(Captured) : Captured[k] # DOLLAR)
        => result = ReplaceLiteral(stripped, Placeholder(0), matches[mi][1])

----------------------------------------------------------------------------
(* The literal of a fallback marker *)

TokLiteral == { <<"$", "1", "?", ":">>, <<"X">>, <<BS, "!">>, <<"$", "1">> }

InitLiteral ==
    InitOn(ArgsFor(Templates(TokLiteral, MaxTokens)), {TRUE},
           MatchLists(Groups({<<"a">>}, 2), MaxMatches))

SpecLiteral == InitLiteral /\ [][Next]_vars

RECURSIVE ClaimRun(_, _)
\* the end (exclusive) of the maximal run, from p, of literal characters and
\* backslash-escaped characters in any order
ClaimRun(s, p) ==
    IF p <= Len(s) /\ IsLiteralChar(s[p]) THEN ClaimRun(s, p + 1)
    ELSE IF p + 1 <= Len(s) /\ s[p] = BS THEN ClaimRun(s, p + 2)
    ELSE p

\* the end (exclusive) of a marker $i?:<literal> at p with such a non-empty
\* literal, 0 when there is none
ClaimEndAt(s, p, i) ==
    LET head == Placeholder(i) \o <<"?", ":">>
        q    == p + Len(head)
    IN  IF HasAt(s, p, head) /\ ClaimRun(s, q) > q THEN ClaimRun(s, q) ELSE 0

ClaimStarts(s, i) == {p \in 1..Len(s) : ClaimEndAt(s, p, i) > 0}

\* the literal of the leftmost such marker
ClaimLiteral(s, i) ==
    LET p == CHOOSE x \in ClaimStarts(s, i) : \A y \in ClaimStarts(s, i) : x <= y
    IN  SubSeq(s, p + Len(Placeholder(i)) + 2, ClaimEndAt(s, p, i) - 1)

RECURSIVE ClaimStrip(_, _, _)
\* s from p on with every such marker rewritten to $i
ClaimStrip(s, p, i) ==
    IF p > Len(s) THEN <<>>
    ELSE IF ClaimEndAt(s, p, i) > 0
    THEN Placeholder(i) \o ClaimStrip(s, ClaimEndAt(s, p, i), i)
    ELSE <<s[p]>> \o ClaimStrip(s, p + 1, i)

RECURSIVE ClaimUnescape(_)
\* each backslash-plus-character pair replaced by the character alone
ClaimUnescape(s) ==
    IF s = <<>> THEN <<>>
    ELSE IF Len(s) >= 2 /\ s[1] = BS THEN <<s[2]>> \o ClaimUnescape(Drop(s, 2))
    ELSE <<s[1]>> \o ClaimUnescape(Tail(s))

\* C9: when the working template holds a marker $i?:<literal>, the literal a
\* non-empty maximal run of letters, digits, hyphens, underscores and
\* backslash-escaped characters in any order, the step for index i rewrites
\* every such marker to $i before substituting and index i is registered, in
\* the first match with the de-escaped literal of the leftmost marker.
C9_MarkerGrammar ==
    (Stepped /\ ClaimStarts(before, LastIndex) # {}) =>
        /\ stripped = ClaimStrip(before, 1, LastIndex)
        /\ LastIndex \in DOMAIN fallbacks
        /\ mi = 1 => fallbacks[LastIndex]
                        = ClaimUnescape(ClaimLiteral(before, LastIndex))

\* C9 for templates in which every such literal begins with a letter, digit,
\* hyphen or underscore
C9_LiteralCharFirst ==
    (Stepped /\ ClaimStarts(before, LastIndex) # {}
        /\ ClaimStarts(before, LastIndex) = FallbackStarts(before, LastIndex)) =>
        /\ stripped = ClaimStrip(before, 1, LastIndex)
        /\ LastIndex \in DOMAIN fallbacks
        /\ mi = 1 => fallbacks[LastIndex]
                        = ClaimUnescape(ClaimLiteral(before, LastIndex))

----------------------------------------------------------------------------
(* Indices of more than one digit *)

WideCaptures == 10

\* matches of a pattern with n capture groups of which the first and the last
\* may take part
WideGroups(w, n) ==
    {[k \in 1..(n + 1) |-> IF k = 1 THEN w
                           ELSE IF k = 2 THEN x
                           ELSE IF k = n + 1 THEN y
                           ELSE <<>>] :
        x \in {<<>>, <<Head(w)>>}, y \in {<<>>, <<w[Len(w)]>>}}

TokWide == { Placeholder(1), Placeholder(WideCaptures), <<"-">> }

InitWide ==
    InitOn(ArgsFor(Templates(TokWide, MaxTokens)), {TRUE},
           MatchLists(WideGroups(<<"a", "b">>, WideCaptures), MaxMatches))

SpecWide == InitWide /\ [][Next]_vars

RECURSIVE ReplaceExact(_, _, _)
\* s with every placeholder t that no digit follows replaced by v
ReplaceExact(s, t, v) ==
    IF s = <<>> THEN <<>>
    ELSE IF HasAt(s, 1, t) /\ ~(Len(s) > Len(t) /\ s[Len(t) + 1] \in DigitSet)
    THEN v \o ReplaceExact(Drop(s, Len(t)), t, v)
    ELSE <<Head(s)>> \o ReplaceExact(Tail(s), t, v)

\* C10: the step for index 1 replaces the $1 placeholders and leaves the $1
\* that begins $10 untouched, and the template "$10" is printed as the
\* effective value of capture 10.
C10_MultiDigitIndex ==
    /\ (Stepped /\ LastIndex = 1)
          => result = ReplaceExact(stripped, Placeholder(1), value)
    /\ (pc = "print" /\ format = Placeholder(WideCaptures))
          => result = StepValue(fallbacks, WideCaptures,
                                matches[mi][WideCaptures + 1])

\* C10 for templates without $10
C10_SingleDigitOnly ==
    (Stepped /\ LastIndex = 1
        /\ \A p \in 1..Len(format) : ~HasAt(format, p, Placeholder(WideCaptures)))
        => result = ReplaceExact(stripped, Placeholder(1), value)

----------------------------------------------------------------------------
(* The descending reference $2?:$1 *)

MaxDescTokens == 2

Desc == <<"$", "2", "?", ":", "$", "1">>

TokDesc == { Desc, <<"$", "2">>, <<" ">> }

\* matches of a two-group pattern on "a" or "b", the second group empty, and
\* one where both groups took part
DescGroups ==
    {g \in Groups({<<"a">>, <<"b">>}, 3) : g[3] = <<>>}
    \cup {<< <<"a">>, <<"a">>, <<"a">> >>}

InitDesc ==
    InitOn(ArgsFor(Templates(TokDesc, MaxDescTokens)), {TRUE},
           MatchLists(DescGroups, MaxMatches))

SpecDesc == InitDesc /\ [][Next]_vars

HasDesc(s) == \E p \in 1..Len(s) : HasAt(s, p, Desc)

\* the line for group g when the $2 positions show the text v: the marker
\* reduced to $2, $1 replaced by capture 1 and $2 by v
DescLine(s, g, v) ==
    ReplaceLiteral(
        ReplaceLiteral(ReplaceLiteral(s, Desc, Placeholder(2)), Placeholder(1), g[2]),
        Placeholder(2), v)

\* the matches whose line C8 speaks of: printed, capture 2 empty, capture 1 not
DescCases ==
    {k \in PrintedBy("main") : matches[k][3] = <<>> /\ matches[k][2] # <<>>}

\* the earliest match up to k whose capture 1 is not empty
EarliestWithOne(k) ==
    CHOOSE j \in 1..k :
        /\ matches[j][2] # <<>>
        /\ \A h \in 1..(j - 1) : matches[h][2] = <<>>

====
